---- MODULE Spec2Model ----
(***************************************************************************)
(* Model of quote_exec_scatter.py: one run of main(), from the module-     *)
(* level reading of the environment to the end of the process.             *)
(*                                                                         *)
(* The run is sequential; pc is the position of the single thread.  Every  *)
(* external call (data provider, image host, chat webhook, file system)    *)
(* is one step whose outcome is chosen by the environment.  A Python       *)
(* exception that nothing catches ends the run in pc = "aborted" with the  *)
(* exception's name in `exception`.                                        *)
(*                                                                         *)
(* wide_bps values are fixed-point decimals in units of 0.001 bps, so      *)
(* 0.5 bps is 500 and y_range * 0.1 is y_range \div 10 (every sample is a  *)
(* multiple of 10 units, so the division is exact).                        *)
(***************************************************************************)
EXTENDS Integers, Sequences, FiniteSets, TLC

VARIABLES
    pc,                 \* position of the run
    DUNE_API_KEY,       \* module-level binding, line 21
    SLACK_WEBHOOK_URL,  \* module-level binding, line 22
    query_result,       \* fetch_dune_data: the provider's result object
    df,                 \* the DataFrame: a sequence of rows
    fig,                \* the figure create_scatter_plot returned
    upload_response,    \* the image host's answer to upload_to_freeimage
    image_url,          \* send_to_slack: what upload_image returned
    payload,            \* send_to_slack: the webhook payload
    response,           \* send_to_slack: the webhook's answer
    result,             \* what send_to_slack returned
    caught,             \* fetch_dune_data: the exception `e` caught at line 34
    exception,          \* the uncaught exception that ended the run
    effects             \* the external effects of the run, in order

vars == <<pc, DUNE_API_KEY, SLACK_WEBHOOK_URL, query_result, df, fig,
          upload_response, image_url, payload, response, result,
          caught, exception, effects>>

----------------------------------------------------------------------------
(* Bounds and input samples *)

MaxRows == 2

Venues == {"0x1111", "0x2222"}

\* -12 bps, -0.3 bps, 0, 0.25 bps, 10.25 bps, 60.25 bps
WideBpsSamples == {-12000, -300, 0, 250, 10250, 60250}

Rows == [venue : Venues, wide_bps : WideBpsSamples]

SeqsUpTo(S, n) == UNION {[1..k -> S] : k \in 0..n}

RowLists == SeqsUpTo(Rows, MaxRows)

----------------------------------------------------------------------------
(* Python values *)

None == "None"

\* Python truthiness of an Optional[str]
Truthy(s) == s # None /\ s # ""

NoResponse == [none |-> TRUE]

NoFigure == [none |-> TRUE]

NoPayload == [none |-> TRUE]

NoResult == [none |-> TRUE]

QUERY_ID == 6720892

Min(S) == CHOOSE x \in S : \A y \in S : x <= y

Max(S) == CHOOSE x \in S : \A y \in S : x >= y

----------------------------------------------------------------------------
(* The data provider (dune_client), seen from fetch_dune_data *)

\* What dune.get_latest_result(QUERY_ID) can do.  Without an API key the
\* provider refuses the request.
LatestOutcomes(key) ==
    IF key = None
    THEN {[error |-> "unauthorized"]}
    ELSE {[error |-> "not_found"], [error |-> "server_error"]}
         \cup {[rows |-> r, source |-> "cached", query_id |-> QUERY_ID] : r \in RowLists}

\* What dune.run_query(QueryBase(query_id=QUERY_ID)) can do.
RunOutcomes(key) ==
    IF key = None
    THEN {[error |-> "unauthorized"]}
    ELSE {[error |-> "execution_failed"]}
         \cup {[rows |-> r, source |-> "fresh", query_id |-> QUERY_ID] : r \in RowLists}

IsError(o) == "error" \in DOMAIN o

\* the handler taking no error: the latest-result error leaves fetch_dune_data
ExceptCatches_Nothing(err) == FALSE

\* `except Exception as e` at line 34: which provider errors the handler takes
ExceptCatches(err) == TRUE

\* main, line 241-244, and fetch_dune_data, lines 28-35: build the client and
\* request the latest result; any exception of the request is caught.
\* DuneClient(None) is library behaviour: it either raises in the constructor
\* or builds a client whose requests the provider refuses.
GetLatestResult ==
    /\ pc = "main"
    /\ \/ /\ DUNE_API_KEY = None
          /\ pc' = "aborted"
          /\ exception' = "KeyError"
          /\ UNCHANGED <<query_result, caught, effects>>
       \/ \E o \in LatestOutcomes(DUNE_API_KEY) :
             /\ effects' = Append(effects, "get_latest_result")
             /\ IF IsError(o)
                THEN IF ExceptCatches(o.error)
                     THEN /\ caught' = o.error
                          /\ pc' = "run_query"
                          /\ UNCHANGED <<query_result, exception>>
                     ELSE /\ pc' = "aborted"
                          /\ exception' = "DuneError"
                          /\ UNCHANGED <<query_result, caught>>
                ELSE /\ query_result' = o
                     /\ pc' = "convert"
                     /\ UNCHANGED <<caught, exception>>
    /\ UNCHANGED <<DUNE_API_KEY, SLACK_WEBHOOK_URL, df, fig, upload_response,
                   image_url, payload, response, result>>

\* fetch_dune_data, lines 35-37: the handler executes the query; an exception
\* of run_query is caught by nothing.
RunQuery ==
    /\ pc = "run_query"
    /\ \E o \in RunOutcomes(DUNE_API_KEY) :
          /\ effects' = Append(effects, "run_query")
          /\ IF IsError(o)
             THEN /\ pc' = "aborted"
                  /\ exception' = "DuneError"
                  /\ UNCHANGED query_result
             ELSE /\ query_result' = o
                  /\ pc' = "convert"
                  /\ UNCHANGED exception
    /\ UNCHANGED <<DUNE_API_KEY, SLACK_WEBHOOK_URL, df, fig, upload_response,
                   image_url, payload, response, result, caught>>

\* fetch_dune_data, lines 39-43: rows to DataFrame, returned to main
ConvertRows ==
    /\ pc = "convert"
    /\ df' = query_result.rows
    /\ pc' = "check_empty"
    /\ UNCHANGED <<DUNE_API_KEY, SLACK_WEBHOOK_URL, query_result, fig,
                   upload_response, image_url, payload, response, result,
                   caught, exception, effects>>

\* the emptiness test never taken
empty_Never(d) == FALSE

\* df.empty, line 246
empty(d) == d = <<>>

\* main, lines 246-248
ExitOnEmpty ==
    /\ pc = "check_empty"
    /\ empty(df)
    /\ pc' = "done"
    /\ UNCHANGED <<DUNE_API_KEY, SLACK_WEBHOOK_URL, query_result, df, fig,
                   upload_response, image_url, payload, response, result,
                   caught, exception, effects>>

----------------------------------------------------------------------------
(* create_scatter_plot *)

Max2(a, b) == IF a >= b THEN a ELSE b

\* 0.5, line 82, in units of 0.001 bps
MinPadding == 500

\* padding without the 0.5 floor
y_padding_NoFloor(y_range) == y_range \div 10

\* line 82: max(y_range * 0.1, 0.5)
y_padding(y_range) == Max2(y_range \div 10, MinPadding)

WideBps(d) == {d[i].wide_bps : i \in DOMAIN d}

\* lines 76-84: the y-axis limits handed to ax.set_ylim
y_lim(d) ==
    LET y_min   == Min(WideBps(d))
        y_max   == Max(WideBps(d))
        y_range == y_max - y_min
    IN  <<y_min - y_padding(y_range), y_max + y_padding(y_range)>>

\* int(x) for x = a / b, b > 0: truncation toward zero
TruncDiv(a, b) == IF a >= 0 THEN a \div b ELSE -((-a) \div b)

\* 10, line 87, in units of 0.001 bps
FineRange == 10000

\* 50, line 90, in units of 0.001 bps
CoarseRange == 50000

\* i/10, line 88, in units of 0.001 bps
FineStep == 100

\* i/2, line 91, in units of 0.001 bps
CoarseStep == 500

\* the fine ticks chosen below 10 bps only
tick_step_FineBelow(y_range) ==
    IF y_range < FineRange THEN FineStep
    ELSE IF y_range <= CoarseRange THEN CoarseStep
    ELSE 0

\* lines 87-92: the increment of the explicit ticks, 0 when none are set
tick_step(y_range) ==
    IF y_range <= FineRange THEN FineStep
    ELSE IF y_range <= CoarseRange THEN CoarseStep
    ELSE 0

\* lines 88 and 91: [i/k for i in range(int(lower * k), int(upper * k) + 1)]
tick_list(lower, upper, step) ==
    LET first == TruncDiv(lower, step)
        last  == TruncDiv(upper, step)
    IN  [k \in 1..(last - first + 1) |-> (first + k - 1) * step]

\* lines 86-92: the ticks handed to ax.set_yticks, if any
y_ticks(d) ==
    LET y_range == Max(WideBps(d)) - Min(WideBps(d))
        step    == tick_step(y_range)
        lim     == y_lim(d)
    IN  IF step = 0 THEN [explicit |-> FALSE]
        ELSE [explicit |-> TRUE, ticks |-> tick_list(lim[1], lim[2], step)]

\* the rows of d at the positions in I, in their order
Pick(d, I) ==
    [k \in 1..Cardinality(I) |->
        d[CHOOSE i \in I : Cardinality({j \in I : j < i}) = k - 1]]

\* line 53: df['venue'].unique(), the venues in first-seen order
unique_venues(d) ==
    LET first == {i \in DOMAIN d : \A j \in 1..(i - 1) : d[j].venue # d[i].venue}
        rows  == Pick(d, first)
    IN  [k \in DOMAIN rows |-> rows[k].venue]

\* the number of colours of the tab10 palette, line 54
PaletteSize == 10

\* line 54: plt.cm.tab10(range(n))[i].  A listed colormap called with an
\* integer beyond its last entry answers with its last entry.
tab10(i) == IF i > PaletteSize - 1 THEN PaletteSize - 1 ELSE i

\* the whole frame taken for every venue
venue_data_Unfiltered(d, venue) == d

\* line 62: df[df['venue'] == venue]
venue_data(d, venue) == Pick(d, {i \in DOMAIN d : d[i].venue = venue})

\* line 64: venue[:8] + "..." if len(venue) > 12 else venue
short_name(venue) ==
    IF Len(venue) > 12 THEN SubSeq(venue, 1, 8) \o "..." ELSE venue

\* lines 52-74: one scatter series and legend entry per venue
series(d) ==
    LET venues == unique_venues(d)
    IN  [k \in DOMAIN venues |->
            [venue |-> venues[k],
             color |-> tab10(k - 1),
             label |-> short_name(venues[k]),
             count |-> Len(venue_data(d, venues[k]))]]

create_scatter_plot(d) ==
    [ylim |-> y_lim(d), yticks |-> y_ticks(d), series |-> series(d)]

\* main, lines 250-256.  A DataFrame built from no rows has no columns, so
\* df['venue'] (line 252) raises KeyError.
CreateScatterPlot ==
    /\ pc = "check_empty"
    /\ ~empty(df)
    /\ IF df = <<>>
       THEN /\ pc' = "aborted"
            /\ exception' = "KeyError"
            /\ UNCHANGED <<fig, effects>>
       ELSE /\ fig' = create_scatter_plot(df)
            /\ effects' = Append(effects, "render")
            /\ pc' = "upload"
            /\ UNCHANGED exception
    /\ UNCHANGED <<DUNE_API_KEY, SLACK_WEBHOOK_URL, query_result, df,
                   upload_response, image_url, payload, response, result,
                   caught>>

----------------------------------------------------------------------------
(* Image hosting: upload_to_freeimage, upload_image *)

HostedUrl == "https://iili.io/chart.png"

NotJson == [not_json |-> TRUE]

\* What requests.post to the image host can do: raise, or answer with an
\* HTTP status and a body that is JSON (a dict) or not.
FreeimageResponses ==
    {[raised |-> "ConnectionError"]}
    \cup {[status_code |-> 500, body |-> NotJson],
          [status_code |-> 400, body |-> [status_code |-> 400]],
          [status_code |-> 200, body |-> NotJson],
          [status_code |-> 200, body |-> [status_code |-> 400]],
          [status_code |-> 200, body |-> [success |-> FALSE]],
          [status_code |-> 200, body |-> [status_code |-> 200]],
          [status_code |-> 200, body |-> [status_code |-> 200, image |-> [url |-> ""]]],
          [status_code |-> 200, body |-> [status_code |-> 200, image |-> [url |-> HostedUrl]]]}

Raised(r) == "raised" \in DOMAIN r

Returns(v) == [value |-> v]

Raises(x) == [raised |-> x]

\* data.get('status_code') == 200, line 130
EmbeddedOk(data) == "status_code" \in DOMAIN data /\ data.status_code = 200

\* lines 115-134, as a function of what requests.post did
upload_to_freeimage(r) ==
    IF Raised(r) THEN Raises(r.raised)
    ELSE IF r.status_code = 200
         THEN IF r.body = NotJson THEN Raises("JSONDecodeError")
              ELSE IF EmbeddedOk(r.body)
                   THEN IF "image" \in DOMAIN r.body
                        THEN Returns(r.body.image.url)
                        ELSE Raises("KeyError")
                   ELSE Returns(None)
         ELSE Returns(None)

\* lines 156-164
upload_image(r) ==
    LET url == upload_to_freeimage(r)
    IN  IF Raised(url) THEN url
        ELSE IF Truthy(url.value) THEN Returns(url.value) ELSE Returns(None)

\* What requests.post to imgbb could do
ImgbbResponses ==
    {[raised |-> "ConnectionError"],
     [status_code |-> 400, body |-> NotJson],
     [status_code |-> 200, body |-> [success |-> FALSE]],
     [status_code |-> 200, body |-> [success |-> TRUE, data |-> [url |-> HostedUrl]]]}

\* lines 137-153.  Nothing in the file calls this function: upload_image
\* (lines 156-164) returns None right after upload_to_freeimage.
upload_to_imgbb(r) ==
    IF Raised(r) THEN Raises(r.raised)
    ELSE IF r.status_code = 200
         THEN IF r.body = NotJson THEN Raises("JSONDecodeError")
              ELSE IF "success" \in DOMAIN r.body /\ r.body.success
                   THEN IF "data" \in DOMAIN r.body
                        THEN Returns(r.body.data.url)
                        ELSE Raises("KeyError")
                   ELSE Returns(None)
         ELSE Returns(None)

\* send_to_slack, lines 170-183
UploadImage ==
    /\ pc = "upload"
    /\ \E r \in FreeimageResponses :
          /\ upload_response' = r
          /\ effects' = Append(effects, "upload_freeimage")
          /\ LET out == upload_image(r)
             IN  IF Raised(out)
                 THEN /\ pc' = "aborted"
                      /\ exception' = out.raised
                      /\ UNCHANGED image_url
                 ELSE /\ image_url' = out.value
                      /\ pc' = "compose"
                      /\ UNCHANGED exception
    /\ UNCHANGED <<DUNE_API_KEY, SLACK_WEBHOOK_URL, query_result, df, fig,
                   payload, response, result, caught>>

----------------------------------------------------------------------------
(* send_to_slack: payload, delivery, local copy *)

\* the characters of the venue names, in code-point order
Alphabet == "0123456789abcdefx"

Code(c) == CHOOSE i \in 1..Len(Alphabet) : SubSeq(Alphabet, i, i) = c

\* a < b for Python strings
LexLess(a, b) ==
    \E k \in 0..Len(a) :
        /\ k <= Len(b)
        /\ SubSeq(a, 1, k) = SubSeq(b, 1, k)
        /\ \/ k = Len(a) /\ k < Len(b)
           \/ /\ k < Len(a)
              /\ k < Len(b)
              /\ Code(SubSeq(a, k + 1, k + 1)) < Code(SubSeq(b, k + 1, k + 1))

\* the nearest integer to n / d (d > 0), ties to the even one
RoundHalfEven(n, d) ==
    LET q == n \div d
        r == n % d
    IN  IF 2 * r < d THEN q
        ELSE IF 2 * r > d THEN q + 1
        ELSE IF q % 2 = 0 THEN q ELSE q + 1

\* .round(2), line 186, of the value n / d in units of 0.001 bps
Round2(n, d) == 10 * RoundHalfEven(n, 10 * d)

RECURSIVE SumSeq(_)
SumSeq(q) == IF q = <<>> THEN 0 ELSE Head(q) + SumSeq(Tail(q))

\* the group's values as a sequence
group_values(d, venue) ==
    LET rows == Pick(d, {i \in DOMAIN d : d[i].venue = venue})
    IN  [k \in DOMAIN rows |-> rows[k].wide_bps]

\* the mean cut to two decimals instead of rounded
group_mean_Truncated(d, venue) ==
    LET q == group_values(d, venue)
    IN  10 * TruncDiv(SumSeq(q), 10 * Len(q))

\* line 186: agg mean, rounded to two decimals
group_mean(d, venue) ==
    LET q == group_values(d, venue)
    IN  Round2(SumSeq(q), Len(q))

\* line 197: venue[:12] + "..." if len(venue) > 15 else venue
short_venue(venue) ==
    IF Len(venue) > 15 THEN SubSeq(venue, 1, 12) \o "..." ELSE venue

\* line 186: df.groupby('venue')['wide_bps'].agg([mean, min, max, count])
\* .round(2), one row per venue in sorted key order; lines 196-198: one
\* summary line per row
summary_lines(d) ==
    LET keys == SortSeq(unique_venues(d), LexLess)
    IN  [k \in DOMAIN keys |->
            LET q == group_values(d, keys[k])
            IN  [venue |-> keys[k],
                 label |-> short_venue(keys[k]),
                 mean  |-> group_mean(d, keys[k]),
                 min   |-> Round2(Min({q[i] : i \in DOMAIN q}), 1),
                 max   |-> Round2(Max({q[i] : i \in DOMAIN q}), 1),
                 count |-> Len(q)]]

\* lines 189-198: the summary text
summary_text(d) ==
    [total |-> Len(d),
     lo    |-> Round2(Min(WideBps(d)), 1),
     hi    |-> Round2(Max(WideBps(d)), 1),
     lines |-> summary_lines(d)]

SectionBlock(d) ==
    [type |-> "section", text |-> [type |-> "mrkdwn", text |-> summary_text(d)]]

ImageBlock(url) ==
    [type |-> "image", image_url |-> url,
     alt_text |-> "Quote vs Exec Spread Scatter Plot"]

\* the image block appended whatever upload_image returned
Blocks_AlwaysImage(d, url) == <<SectionBlock(d), ImageBlock(url)>>

\* lines 200-217
Blocks(d, url) ==
    IF Truthy(url) THEN <<SectionBlock(d), ImageBlock(url)>>
    ELSE <<SectionBlock(d)>>

\* the local copy written before the delivery as well
ComposePayload_PersistFirst ==
    /\ pc = "compose"
    /\ payload' = [text |-> "Quote vs Exec Spread Report", blocks |-> Blocks(df, image_url)]
    /\ effects' = Append(effects, "file_write")
    /\ pc' = "post"
    /\ UNCHANGED <<DUNE_API_KEY, SLACK_WEBHOOK_URL, query_result, df, fig,
                   upload_response, image_url, response, result, caught,
                   exception>>

\* lines 185-223
ComposePayload ==
    /\ pc = "compose"
    /\ payload' = [text |-> "Quote vs Exec Spread Report", blocks |-> Blocks(df, image_url)]
    /\ pc' = "post"
    /\ UNCHANGED <<DUNE_API_KEY, SLACK_WEBHOOK_URL, query_result, df, fig,
                   upload_response, image_url, response, result, caught,
                   exception, effects>>

WebhookResponses ==
    {[raised |-> "ConnectionError"],
     [status_code |-> 200], [status_code |-> 404], [status_code |-> 500]}

\* the POST repeated until the webhook answers 200
PostToSlack_Retry ==
    /\ pc = "post"
    /\ SLACK_WEBHOOK_URL # None
    /\ \E r \in WebhookResponses :
          /\ effects' = Append(effects, "webhook_post")
          /\ IF Raised(r)
             THEN /\ pc' = "aborted"
                  /\ exception' = r.raised
                  /\ UNCHANGED response
             ELSE /\ response' = r
                  /\ pc' = IF r.status_code = 200 THEN "save_local" ELSE "post"
                  /\ UNCHANGED exception
    /\ UNCHANGED <<DUNE_API_KEY, SLACK_WEBHOOK_URL, query_result, df, fig,
                   upload_response, image_url, payload, result, caught>>

\* line 225: requests.post(SLACK_WEBHOOK_URL, json=payload).  requests
\* rejects a URL of None with MissingSchema before anything is sent.
PostToSlack ==
    /\ pc = "post"
    /\ \/ /\ SLACK_WEBHOOK_URL = None
          /\ pc' = "aborted"
          /\ exception' = "MissingSchema"
          /\ UNCHANGED <<response, effects>>
       \/ /\ SLACK_WEBHOOK_URL # None
          /\ \E r \in WebhookResponses :
                /\ effects' = Append(effects, "webhook_post")
                /\ IF Raised(r)
                   THEN /\ pc' = "aborted"
                        /\ exception' = r.raised
                        /\ UNCHANGED response
                   ELSE /\ response' = r
                        /\ pc' = "save_local"
                        /\ UNCHANGED exception
    /\ UNCHANGED <<DUNE_API_KEY, SLACK_WEBHOOK_URL, query_result, df, fig,
                   upload_response, image_url, payload, result, caught>>

\* lines 227-234: fig.savefig('quote_exec_scatter.png')
SaveLocal ==
    /\ pc = "save_local"
    /\ effects' = Append(effects, "file_write")
    /\ pc' = "return"
    /\ UNCHANGED <<DUNE_API_KEY, SLACK_WEBHOOK_URL, query_result, df, fig,
                   upload_response, image_url, payload, response, result,
                   caught, exception>>

\* success only when the image was hosted as well
success_IfHosted(r) == r.status_code = 200 /\ Truthy(image_url)

\* line 236: the value send_to_slack returns
success(r) == r.status_code = 200

\* line 236, and main, lines 259-262
ReturnFromSend ==
    /\ pc = "return"
    /\ result' = [value |-> success(response)]
    /\ pc' = "done"
    /\ UNCHANGED <<DUNE_API_KEY, SLACK_WEBHOOK_URL, query_result, df, fig,
                   upload_response, image_url, payload, response, caught,
                   exception, effects>>

----------------------------------------------------------------------------
(* One run *)

\* lines 18-23: the environment may or may not hold each secret
Init ==
    /\ pc = "main"
    /\ DUNE_API_KEY \in {None, "dune-key"}
    /\ SLACK_WEBHOOK_URL \in {None, "https://hooks.slack.com/services/T"}
    /\ query_result = NoResult
    /\ df = <<>>
    /\ fig = NoFigure
    /\ upload_response = NoResponse
    /\ image_url = None
    /\ payload = NoPayload
    /\ response = NoResponse
    /\ result = NoResult
    /\ caught = None
    /\ exception = None
    /\ effects = <<>>

Next ==
    \/ GetLatestResult
    \/ RunQuery
    \/ ConvertRows
    \/ ExitOnEmpty
    \/ CreateScatterPlot
    \/ UploadImage
    \/ ComposePayload
    \/ PostToSlack
    \/ SaveLocal
    \/ ReturnFromSend

Spec == Init /\ [][Next]_vars

----------------------------------------------------------------------------
(* The report of one frame: the run from the return of fetch_dune_data to  *)
(* the composed payload, over frames with several records per venue, venue *)
(* names of every length and many venues.                                  *)

MaxRecords == 3

MaxNameLen == 17

MaxVenues == 11

\* -2 bps, 1 bps, 1.234 bps, 2 bps, 3 bps
StatsSamples == {-2000, 1000, 1234, 2000, 3000}

StatsFrames ==
    SeqsUpTo([venue : Venues, wide_bps : StatsSamples], MaxRecords) \ {<<>>}

LongVenue == "0x9008d19f58aabd9ed0d60971565aa8510560ab41"

\* one record of a venue whose name has n characters
LabelFrames ==
    {<<[venue |-> SubSeq(LongVenue, 1, n), wide_bps |-> 1000]>> : n \in 1..MaxNameLen}

\* n records of n venues
ManyVenueFrames ==
    {[i \in 1..n |-> [venue |-> "0x" \o ToString(i), wide_bps |-> 1000 * i]] :
        n \in 1..MaxVenues}

ReportFrames == StatsFrames \cup LabelFrames \cup ManyVenueFrames

\* the state in which fetch_dune_data has returned the cached rows (line 244)
InitReport ==
    /\ pc = "check_empty"
    /\ DUNE_API_KEY = "dune-key"
    /\ SLACK_WEBHOOK_URL = "https://hooks.slack.com/services/T"
    /\ \E f \in ReportFrames :
          /\ query_result = [rows |-> f, source |-> "cached", query_id |-> QUERY_ID]
          /\ df = f
    /\ fig = NoFigure
    /\ upload_response = NoResponse
    /\ image_url = None
    /\ payload = NoPayload
    /\ response = NoResponse
    /\ result = NoResult
    /\ caught = None
    /\ exception = None
    /\ effects = <<"get_latest_result">>

NextReport ==
    \/ CreateScatterPlot
    \/ UploadImage
    \/ ComposePayload

SpecReport == InitReport /\ [][NextReport]_vars

----------------------------------------------------------------------------
(* Properties *)

Ended == pc \in {"done", "aborted"}

Count(s, x) == Cardinality({i \in DOMAIN s : s[i] = x})

\* how often the run performed an external effect
Did(effect) == Count(effects, effect)

Rendered == fig # NoFigure

\* The image host answered HTTP 200 with embedded status_code 200 and a URL
HostReturnedUrl(r) ==
    /\ "status_code" \in DOMAIN r
    /\ r.status_code = 200
    /\ r.body # NotJson
    /\ "status_code" \in DOMAIN r.body
    /\ r.body.status_code = 200
    /\ "image" \in DOMAIN r.body
    /\ r.body.image.url # ""

NetworkError(r) == "raised" \in DOMAIN r

HttpFailure(r) == "status_code" \in DOMAIN r /\ r.status_code # 200

EmbeddedFailure(r) ==
    /\ "status_code" \in DOMAIN r
    /\ r.status_code = 200
    /\ r.body # NotJson
    /\ "status_code" \in DOMAIN r.body
    /\ r.body.status_code # 200

\* C1: in every run that rendered the chart, the chart has been written to
\* quote_exec_scatter.png exactly once when the run ends, whatever the hosting
\* step and the webhook delivery did (network errors included).
C1_LocalCopyExactlyOnce ==
    (Ended /\ Rendered) => Did("file_write") = 1

\* C2: send_to_slack never raises: once the chart is rendered, no failure of
\* the image-host upload or of the webhook POST ends the run with an
\* exception.
C2_NeverRaises ==
    Rendered => (pc # "aborted" /\ exception = None)

\* C3: the payload POSTed to the webhook always holds the markdown text block
\* first, and holds an image block if and only if the image host returned a
\* URL; the image block then carries that URL.
C3_PayloadBlocks ==
    Did("webhook_post") > 0 =>
        LET b == payload.blocks
        IN  /\ b[1].type = "section"
            /\ b[1].text.type = "mrkdwn"
            /\ IF HostReturnedUrl(upload_response)
               THEN /\ Len(b) = 2
                    /\ b[2].type = "image"
                    /\ b[2].image_url = upload_response.body.image.url
               ELSE Len(b) = 1

C3_Witness ==
    /\ Did("webhook_post") = 1
    /\ HostReturnedUrl(upload_response)
    /\ Len(payload.blocks) = 2

\* C4: each failure class of the hosting step (network error, HTTP status
\* other than 200, HTTP 200 with an embedded status_code other than 200)
\* yields "no image", a URL is yielded only for HTTP 200 with embedded
\* status_code 200, and after every failure class the webhook delivery is
\* still attempted with a text-only payload (stated for runs whose webhook
\* URL is configured, so that only the hosting step decides it).
C4_HostingFailureDegrades ==
    /\ Truthy(image_url) => HostReturnedUrl(upload_response)
    /\ (/\ Ended
        /\ SLACK_WEBHOOK_URL # None
        /\ \/ NetworkError(upload_response)
           \/ HttpFailure(upload_response)
           \/ EmbeddedFailure(upload_response))
       => /\ image_url = None
          /\ Did("webhook_post") = 1
          /\ Len(payload.blocks) = 1

\* C5: the flag send_to_slack returns is TRUE exactly when the webhook
\* answered HTTP 200; it is a function of the webhook status alone, so the
\* hosting outcome does not change it.
C5_SuccessIsDeliveryStatus ==
    result # NoResult => (result.value <=> (response.status_code = 200))

C5_Witness ==
    /\ result # NoResult
    /\ result.value
    /\ image_url = None
    /\ HttpFailure(upload_response)

\* C6: when ingestion succeeded with zero rows, nothing is rendered, uploaded,
\* POSTed or written, and the run does not end with an exception.
C6_EmptyResultStops ==
    (query_result # NoResult /\ query_result.rows = <<>>) =>
        /\ Did("render") = 0
        /\ Did("upload_freeimage") = 0
        /\ Did("webhook_post") = 0
        /\ Did("file_write") = 0
        /\ ~Rendered
        /\ exception = None
        /\ pc \in {"convert", "check_empty", "done"}

C6_Witness ==
    /\ pc = "done"
    /\ query_result # NoResult
    /\ query_result.rows = <<>>
    /\ result = NoResult

\* C7: when the API key or the webhook URL is absent at process start, the
\* run performs no data-provider call, render, upload, POST or file write.
C7_MissingSecretAbortsFirst ==
    (DUNE_API_KEY = None \/ SLACK_WEBHOOK_URL = None) => effects = <<>>

\* C8: an error of the latest-result request other than "no cached result"
\* is fatal: run_query is not triggered and nothing is rendered, delivered
\* or persisted.
C8_OtherErrorIsFatal ==
    (caught # None /\ caught # "not_found") =>
        /\ Did("run_query") = 0
        /\ Did("render") = 0
        /\ Did("webhook_post") = 0
        /\ Did("file_write") = 0

\* C9: the latest result is requested first; on a cache hit run_query is not
\* called and the cached rows become the DataFrame; on a cache miss run_query
\* is called exactly once and its rows become the DataFrame; an error of
\* run_query is not retried and ends the run.
C9_CacheThenFresh ==
    /\ effects # <<>> => effects[1] = "get_latest_result"
    /\ Did("get_latest_result") <= 1
    /\ Did("run_query") <= 1
    /\ (caught = None /\ pc # "main" /\ exception = None) =>
            /\ query_result.source = "cached"
            /\ Did("run_query") = 0
    /\ (caught # None /\ pc # "run_query") => Did("run_query") = 1
    /\ (caught # None /\ pc \notin {"run_query", "aborted"}) =>
            query_result.source = "fresh"
    /\ (query_result # NoResult /\ pc \notin {"convert", "aborted"}) =>
            df = query_result.rows
    /\ (Did("get_latest_result") = 1 /\ query_result = NoResult /\ pc # "run_query") =>
            /\ pc = "aborted"
            /\ exception = "DuneError"
            /\ effects = <<"get_latest_result", "run_query">>

C9_Witness ==
    /\ pc = "done"
    /\ caught = "not_found"
    /\ query_result.source = "fresh"
    /\ df # <<>>
    /\ Did("run_query") = 1

\* C10: the y-axis range is [y_min - p, y_max + p] with
\* p = max(0.1 * (y_max - y_min), 0.5), so it contains every wide_bps value
\* and is at least 1 bps high, also when all values are equal.
C10_PaddedRange ==
    Rendered =>
        LET y_min == Min(WideBps(df))
            y_max == Max(WideBps(df))
            R     == y_max - y_min
            lower == fig.ylim[1]
            upper == fig.ylim[2]
            p     == y_min - lower
        IN  /\ upper = y_max + p
            /\ 10 * p >= R
            /\ p >= 500
            /\ (10 * p = R \/ p = 500)
            /\ lower <= y_min
            /\ upper >= y_max
            /\ upper - lower >= 1000

C10_Witness ==
    /\ Rendered
    /\ Len(df) = 2
    /\ Cardinality(WideBps(df)) = 1
    /\ fig.ylim[2] - fig.ylim[1] = 1000

\* C11: the span R = y_max - y_min alone selects the ticks: R <= 10 gives
\* explicit ticks 0.1 apart, 10 < R <= 50 gives explicit ticks 0.5 apart,
\* R > 50 sets no explicit ticks.
C11_TickGranularity ==
    Rendered =>
        LET R == Max(WideBps(df)) - Min(WideBps(df))
            t == fig.yticks
            Spaced(step) ==
                /\ t.explicit
                /\ Len(t.ticks) >= 2
                /\ \A i \in 1..(Len(t.ticks) - 1) : t.ticks[i + 1] - t.ticks[i] = step
        IN  /\ R <= 10000 => Spaced(100)
            /\ (R > 10000 /\ R <= 50000) => Spaced(500)
            /\ R > 50000 => ~t.explicit

C11_Witness ==
    /\ Rendered
    /\ Max(WideBps(df)) - Min(WideBps(df)) = 10000
    /\ fig.yticks.explicit
    /\ fig.yticks.ticks[2] - fig.yticks.ticks[1] = 100

\* C18: whenever explicit ticks are set, every tick lies inside the padded
\* axis range [y_min - p, y_max + p].
C18_TicksInsideRange ==
    (Rendered /\ fig.yticks.explicit) =>
        \A i \in DOMAIN fig.yticks.ticks :
            /\ fig.ylim[1] <= fig.yticks.ticks[i]
            /\ fig.yticks.ticks[i] <= fig.ylim[2]

\* C13: within one run the payload is POSTed to the webhook at most once and
\* each image host is called at most once; a non-success answer of either is
\* not retried.
C13_NoRetry ==
    /\ Did("webhook_post") <= 1
    /\ Did("upload_freeimage") <= 1
    /\ Did("upload_imgbb") <= 1
    /\ (Ended /\ response # NoResponse) => Did("webhook_post") = 1
    /\ (Ended /\ upload_response # NoResponse) => Did("upload_freeimage") = 1

C13_Witness ==
    /\ pc = "done"
    /\ HttpFailure(upload_response)
    /\ HttpFailure(response)
    /\ Did("upload_freeimage") = 1
    /\ Did("webhook_post") = 1

\* the hosting step is over and raised nothing
Hosted ==
    /\ Did("upload_freeimage") = 1
    /\ pc \in {"compose", "post", "save_local", "return", "done"}

\* C14: upload_image tries freeimage.host first; when it fails imgbb is
\* attempted before "no image" is yielded; when it succeeds imgbb is not
\* called; "no image" is yielded only after both failed.
C14_ProviderChain ==
    /\ Did("upload_imgbb") > 0 => Did("upload_freeimage") > 0
    /\ (Hosted /\ HostReturnedUrl(upload_response)) => Did("upload_imgbb") = 0
    /\ (Hosted /\ ~HostReturnedUrl(upload_response)) => Did("upload_imgbb") = 1
    /\ (Hosted /\ image_url = None) => Did("upload_imgbb") = 1

\* the place of an external effect in the order of the run
Rank(effect) ==
    CASE effect = "get_latest_result" -> 1
      [] effect = "run_query"         -> 2
      [] effect = "render"            -> 3
      [] effect = "upload_freeimage"  -> 4
      [] effect = "upload_imgbb"      -> 5
      [] effect = "webhook_post"      -> 6
      [] effect = "file_write"        -> 7

\* C17: the external effects of a run happen one after another in the order
\* ingestion, render, image-host upload, webhook POST, local file write: no
\* POST before the upload attempt, no file write before the POST.
C17_SequentialOrder ==
    /\ \A i, j \in DOMAIN effects :
          i < j => Rank(effects[i]) < Rank(effects[j])
    /\ Did("webhook_post") > 0 =>
          (Did("upload_freeimage") = 1 /\ upload_response # NoResponse)
    /\ Did("file_write") > 0 =>
          (Did("webhook_post") = 1 /\ response # NoResponse)
    /\ Did("upload_freeimage") > 0 => Did("render") = 1
    /\ Did("render") > 0 => Did("get_latest_result") = 1

C17_Witness ==
    effects = <<"get_latest_result", "run_query", "render",
                "upload_freeimage", "webhook_post", "file_write">>

Composed == payload # NoPayload

SummaryOf(p) == p.blocks[1].text.text

VenuesOf(d) == {d[i].venue : i \in DOMAIN d}

RecordsOf(d, v) == {i \in DOMAIN d : d[i].venue = v}

Abs(x) == IF x >= 0 THEN x ELSE -x

\* x is n / d written with two decimals (units of 0.001 bps)
TwoDecimalsOf(x, n, d) == x % 10 = 0 /\ 2 * Abs(x * d - n) <= 10 * d

\* C12: for every venue the abbreviated label of its summary line is the
\* abbreviated label of its legend entry.
C12_SameAbbreviation ==
    Composed =>
        \A i \in DOMAIN fig.series : \A j \in DOMAIN SummaryOf(payload).lines :
            fig.series[i].venue = SummaryOf(payload).lines[j].venue
                => fig.series[i].label = SummaryOf(payload).lines[j].label

\* C15: the summary has exactly one line per distinct venue; its count is
\* the number of the venue's records, its min and max are the least and the
\* greatest of the venue's wide_bps, its mean is their sum divided by the
\* count (each written with two decimals); the global line reports the
\* least and the greatest wide_bps and the number of all records.
C15_SummaryStats ==
    Composed =>
        LET t == SummaryOf(payload)
        IN  /\ Len(t.lines) = Cardinality(VenuesOf(df))
            /\ t.total = Len(df)
            /\ TwoDecimalsOf(t.lo, Min(WideBps(df)), 1)
            /\ TwoDecimalsOf(t.hi, Max(WideBps(df)), 1)
            /\ \A v \in VenuesOf(df) :
                  LET L    == {j \in DOMAIN t.lines : t.lines[j].venue = v}
                      l    == t.lines[CHOOSE j \in L : TRUE]
                      vals == {df[i].wide_bps : i \in RecordsOf(df, v)}
                      sum  == SumSeq([i \in DOMAIN df |->
                                  IF df[i].venue = v THEN df[i].wide_bps ELSE 0])
                  IN  /\ Cardinality(L) = 1
                      /\ l.count = Cardinality(RecordsOf(df, v))
                      /\ TwoDecimalsOf(l.min, Min(vals), 1)
                      /\ TwoDecimalsOf(l.max, Max(vals), 1)
                      /\ TwoDecimalsOf(l.mean, sum, l.count)

\* {(A,1),(A,3),(B,2)}: A mean 2, min 1, max 3, count 2; B mean 2, min 2,
\* max 2, count 1; global 1, 3, 3
C15_Witness ==
    /\ Composed
    /\ df = <<[venue |-> "0x1111", wide_bps |-> 1000],
              [venue |-> "0x1111", wide_bps |-> 3000],
              [venue |-> "0x2222", wide_bps |-> 2000]>>
    /\ SummaryOf(payload).lines =
          <<[venue |-> "0x1111", label |-> "0x1111",
             mean |-> 2000, min |-> 1000, max |-> 3000, count |-> 2],
            [venue |-> "0x2222", label |-> "0x2222",
             mean |-> 2000, min |-> 2000, max |-> 2000, count |-> 1]>>
    /\ SummaryOf(payload).lo = 1000
    /\ SummaryOf(payload).hi = 3000
    /\ SummaryOf(payload).total = 3

\* C16: every venue has one series, hence one colour for all its points, and
\* two different venues never share a colour within one chart.
C16_DistinctColors ==
    Rendered =>
        /\ \A v \in VenuesOf(df) :
              Cardinality({i \in DOMAIN fig.series : fig.series[i].venue = v}) = 1
        /\ \A i, j \in DOMAIN fig.series :
              i # j => fig.series[i].color # fig.series[j].color

\* C19: the legend and the summary cover the same venues, a venue's count
\* in the legend is its count in the summary, and the counts add up to the
\* total transaction count.
C19_LegendMatchesSummary ==
    Composed =>
        LET t == SummaryOf(payload)
        IN  /\ {fig.series[i].venue : i \in DOMAIN fig.series}
                 = {t.lines[j].venue : j \in DOMAIN t.lines}
            /\ \A i \in DOMAIN fig.series : \A j \in DOMAIN t.lines :
                  fig.series[i].venue = t.lines[j].venue
                      => fig.series[i].count = t.lines[j].count
            /\ SumSeq([j \in DOMAIN t.lines |-> t.lines[j].count]) = t.total
            /\ SumSeq([i \in DOMAIN fig.series |-> fig.series[i].count]) = t.total

C19_Witness ==
    /\ Composed
    /\ Len(df) = 3
    /\ Len(fig.series) = 2
    /\ fig.series[1].count = 2
    /\ SummaryOf(payload).total = 3

====
